---- MODULE Spec2Model ----
(***************************************************************************)
(* Model of the Tauri antivirus commands of the Sanctum GUI                *)
(* (gui/src-tauri/src/antivirus.rs): check_page_state, stop_scan and       *)
(* start_folder_scan with its detached tokio task, driving the usermode    *)
(* engine (um_engine::UmEngine) and emitting events on the AppHandle;      *)
(* and of IpcClient::send_ipc (gui/src-tauri/src/ipc.rs), the request and  *)
(* response exchange with the engine over one named pipe.                  *)
(***************************************************************************)
EXTENDS Integers, Sequences, FiniteSets, TLC

(* ---------------- bounds ---------------- *)
NumInv == 2          \* start_folder_scan invocations
NumFiles == 2        \* files the engine may report as malicious
MaxProgress == 1     \* progress snapshots of one scan
MaxStops == 2        \* stop_scan invocations counted while no scan is active
MaxPolls == 2        \* check_page_state invocations counted between engine transitions
MaxWorkers == 2      \* largest worker pool of the async runtime
NumCalls == 2        \* send_ipc calls on the connection
BufSize == 3         \* bytes of the receive buffer (vec![0u8; 1024], scaled to the model's responses)

Invs == 1..NumInv
Calls == 1..NumCalls
Files == 1..NumFiles
Paths == {"", "/data/samples"}
Errors == {"io error", "access denied"}

(* ---------------- event names and literals of antivirus.rs ------------- *)
EvNoResults == "folder_scan_no_results"
EvMalwareFound == "folder_scan_malware_found"
EvError == "folder_scan_error"
MsgNoResults == "No malicious files found."
MsgAlreadyRunning == "A scan is already in progress."
AckStarted == "Scan started..."

(* ---------------- um_engine::State ---------------- *)
Idle == [tag |-> "Idle", scan_results |-> {}, err |-> "", progress |-> 0]
Scanning(p) == [tag |-> "Scanning", scan_results |-> {}, err |-> "", progress |-> p]
Finished(v) == [tag |-> "Finished", scan_results |-> v, err |-> "", progress |-> 0]
FinishedWithError(e) == [tag |-> "FinishedWithError", scan_results |-> {}, err |-> e, progress |-> 0]

NoState == [tag |-> "none", scan_results |-> {}, err |-> "", progress |-> 0]

ScanOutcomes == {Finished(v) : v \in SUBSET Files} \cup {FinishedWithError(e) : e \in Errors}

(* serde_json::to_string(&state): the variant name followed by the text of *)
(* its content; a unit variant is its name alone.                          *)
to_string(s) ==
    CASE s.tag = "Idle" -> <<"Idle">>
      [] s.tag = "Scanning" -> <<"Scanning", ToString(s.progress)>>
      [] s.tag = "Finished" -> <<"Finished", ToString(s.scan_results)>>
      [] s.tag = "FinishedWithError" -> <<"FinishedWithError", s.err>>
      [] OTHER -> <<>>

(* the ScanState variant a serialised state names ("" for String::new())   *)
VariantOf(str) == IF Len(str) = 0 THEN "" ELSE str[1]

(* a send_ipc call that has not returned *)
NoResult == [ok |-> FALSE, val |-> <<>>, kind |-> "", cause |-> "none"]

(* payloads handed to app_handle.emit *)
TextPayload(t) == [text |-> t, scan_results |-> {}]
ResultPayload(v) == [text |-> "", scan_results |-> v.scan_results]

VARIABLES
    engine,      \* the one ScanState the engine holds
    owner,       \* the task whose scanner_start_scan call is running the scan (0: none)
    hpc,         \* start_folder_scan handler of invocation i: "idle", "called", "returned"
    ack,         \* what the handler returned to its caller
    path,        \* PathBuf the closure holds until it moves it into scanner_start_scan
    task,        \* spawned task of invocation i: "none", "spawned", "inCall", "returned", "done"
    ret,         \* ScanState the task's scanner_start_scan call returned
    blocker,     \* the task whose scan was running when this task's call was answered Scanning (0: none)
    events,      \* events emitted on the AppHandle, in order
    stopResult,  \* what the latest stop_scan returned ("" before the first)
    idleStops,   \* stop_scan calls in a row that found no scan active
    pollResult,  \* what the latest check_page_state returned since the engine's last transition
    polls,       \* check_page_state calls since the last start, cancel or scan completion
    poolSize,    \* worker threads of the async runtime the commands and tasks run on
    scanArgs     \* the paths scanner_start_scan has been called with

VARIABLES
    conn,        \* the named pipe: "open", or "closed" once the engine side is gone
    holder,      \* the send_ipc call holding the &mut IpcClient borrow (0: none)
    cpc,         \* send_ipc call c: "idle", "written", "done", "abandoned"
    pending,     \* requests written to the pipe the engine has not answered yet
    inbox,       \* response bytes in the pipe not read yet, each with the request it answers
    result,      \* what call c returned
    writes,      \* write_all calls made by call c
    reads,       \* read calls made by call c
    readData,    \* the bytes call c's read put in its buffer
    respLen      \* length of the response the engine wrote for call c's request (0: none yet)

avVars == <<engine, owner, hpc, ack, path, task, ret, blocker, events, stopResult, idleStops, pollResult, polls, poolSize, scanArgs>>
ipcVars == <<conn, holder, cpc, pending, inbox, result, writes, reads, readData, respLen>>
vars == <<avVars, ipcVars>>

Init ==
    /\ engine = Idle
    /\ owner = 0
    /\ hpc = [i \in Invs |-> "idle"]
    /\ ack = [i \in Invs |-> ""]
    /\ path = [i \in Invs |-> ""]
    /\ task = [i \in Invs |-> "none"]
    /\ ret = [i \in Invs |-> NoState]
    /\ blocker = [i \in Invs |-> 0]
    /\ events = <<>>
    /\ stopResult = ""
    /\ idleStops = 0
    /\ pollResult = <<>>
    /\ polls = 0
    /\ poolSize \in 1..MaxWorkers
    /\ scanArgs = {}
    /\ conn = "open"
    /\ holder = 0
    /\ cpc = [c \in Calls |-> "idle"]
    /\ pending = <<>>
    /\ inbox = <<>>
    /\ result = [c \in Calls |-> NoResult]
    /\ writes = [c \in Calls |-> 0]
    /\ reads = [c \in Calls |-> 0]
    /\ readData = [c \in Calls |-> <<>>]
    /\ respLen = [c \in Calls |-> 0]

(* ---------------- the async runtime's worker pool ---------------- *)

(* workers occupied: a start_folder_scan handler that has not returned, and *)
(* a spawned task from its scanner_start_scan call, which does not yield,  *)
(* to its end                                                              *)
WorkersBusy ==
    Cardinality({i \in Invs : hpc[i] = "called"})
      + Cardinality({i \in Invs : task[i] \in {"inCall", "returned"}})

(* an async command or a spawned task starts running when a worker is free *)
WorkerFree == WorkersBusy < poolSize

(* ---------------- start_folder_scan ---------------- *)

(* the command is invoked: the path is converted and tokio::spawn detaches *)
(* the closure                                                             *)
start_folder_scan(i, file_path) ==
    /\ hpc[i] = "idle"
    /\ WorkerFree
    /\ hpc' = [hpc EXCEPT ![i] = "called"]
    /\ path' = [path EXCEPT ![i] = file_path]
    /\ task' = [task EXCEPT ![i] = "spawned"]
    /\ UNCHANGED <<engine, owner, ack, ret, blocker, events, stopResult, idleStops, pollResult, polls>>
    /\ UNCHANGED <<poolSize, scanArgs, ipcVars>>

(* the handler awaits the JoinHandle before answering *)
start_folder_scan_return_after_join(i) ==
    /\ hpc[i] = "called"
    /\ task[i] = "done"
    /\ hpc' = [hpc EXCEPT ![i] = "returned"]
    /\ ack' = [ack EXCEPT ![i] = AckStarted]
    /\ UNCHANGED <<engine, owner, path, task, ret, blocker, events, stopResult, idleStops, pollResult, polls>>
    /\ UNCHANGED <<poolSize, scanArgs, ipcVars>>

(* Ok(format!("Scan started...")): the JoinHandle is dropped, not awaited  *)
start_folder_scan_return(i) ==
    /\ hpc[i] = "called"
    /\ hpc' = [hpc EXCEPT ![i] = "returned"]
    /\ ack' = [ack EXCEPT ![i] = AckStarted]
    /\ UNCHANGED <<engine, owner, path, task, ret, blocker, events, stopResult, idleStops, pollResult, polls>>
    /\ UNCHANGED <<poolSize, scanArgs, ipcVars>>

(* ---------------- the detached task (antivirus.rs 51-72) --------------- *)

Event(i, name, payload) == [inv |-> i, name |-> name, payload |-> payload]

(* the emptiness test inverted *)
match_state_inverted(i, s) ==
    CASE s.tag = "Finished" ->
            IF s.scan_results # {}
            THEN <<Event(i, EvNoResults, TextPayload(MsgNoResults))>>
            ELSE <<Event(i, EvMalwareFound, ResultPayload(s))>>
      [] s.tag = "FinishedWithError" -> <<Event(i, EvError, TextPayload(s.err))>>
      [] s.tag = "Scanning" -> <<Event(i, EvError, TextPayload(MsgAlreadyRunning))>>
      [] OTHER -> <<>>

(* only the first finding is put in the payload *)
match_state_first_finding(i, s) ==
    CASE s.tag = "Finished" ->
            IF s.scan_results = {}
            THEN <<Event(i, EvNoResults, TextPayload(MsgNoResults))>>
            ELSE <<Event(i, EvMalwareFound,
                         [text |-> "", scan_results |-> {CHOOSE f \in s.scan_results : TRUE}])>>
      [] s.tag = "FinishedWithError" -> <<Event(i, EvError, TextPayload(s.err))>>
      [] s.tag = "Scanning" -> <<Event(i, EvError, TextPayload(MsgAlreadyRunning))>>
      [] OTHER -> <<>>

(* a Scanning answer taken for a scan that found nothing *)
match_state_scanning_as_clean(i, s) ==
    CASE s.tag = "Finished" ->
            IF s.scan_results = {}
            THEN <<Event(i, EvNoResults, TextPayload(MsgNoResults))>>
            ELSE <<Event(i, EvMalwareFound, ResultPayload(s))>>
      [] s.tag = "FinishedWithError" -> <<Event(i, EvError, TextPayload(s.err))>>
      [] s.tag = "Scanning" -> <<Event(i, EvNoResults, TextPayload(MsgNoResults))>>
      [] OTHER -> <<>>

(* the error arm emits a fixed text instead of the engine's description *)
match_state_fixed_error(i, s) ==
    CASE s.tag = "Finished" ->
            IF s.scan_results = {}
            THEN <<Event(i, EvNoResults, TextPayload(MsgNoResults))>>
            ELSE <<Event(i, EvMalwareFound, ResultPayload(s))>>
      [] s.tag = "FinishedWithError" -> <<Event(i, EvError, TextPayload("Scan failed."))>>
      [] s.tag = "Scanning" -> <<Event(i, EvError, TextPayload(MsgAlreadyRunning))>>
      [] OTHER -> <<>>

(* the Finished arm with findings falls through into the error arm *)
match_state_falls_through(i, s) ==
    CASE s.tag = "Finished" ->
            IF s.scan_results = {}
            THEN <<Event(i, EvNoResults, TextPayload(MsgNoResults))>>
            ELSE <<Event(i, EvMalwareFound, ResultPayload(s)),
                   Event(i, EvError, TextPayload(s.err))>>
      [] s.tag = "FinishedWithError" -> <<Event(i, EvError, TextPayload(s.err))>>
      [] s.tag = "Scanning" -> <<Event(i, EvError, TextPayload(MsgAlreadyRunning))>>
      [] OTHER -> <<>>

(* the match on the returned um_engine::State: the events it emits *)
match_state(i, s) ==
    CASE s.tag = "Finished" ->
            IF s.scan_results = {}
            THEN <<Event(i, EvNoResults, TextPayload(MsgNoResults))>>
            ELSE <<Event(i, EvMalwareFound, ResultPayload(s))>>
      [] s.tag = "FinishedWithError" -> <<Event(i, EvError, TextPayload(s.err))>>
      [] s.tag = "Scanning" -> <<Event(i, EvError, TextPayload(MsgAlreadyRunning))>>
      [] OTHER -> <<>>

(* engine.scanner_start_scan(path) is entered: a scan already running      *)
(* answers Scanning at once, otherwise the call runs the scan and blocks   *)
(* the task until it ends                                                  *)
scanner_start_scan(i) ==
    /\ task[i] = "spawned"
    /\ WorkerFree
    /\ path' = [path EXCEPT ![i] = ""]
    /\ IF engine.tag = "Scanning"
       THEN /\ ret' = [ret EXCEPT ![i] = engine]
            /\ blocker' = [blocker EXCEPT ![i] = owner]
            /\ task' = [task EXCEPT ![i] = "returned"]
            /\ UNCHANGED <<engine, owner>>
       ELSE /\ engine' = Scanning(0)
            /\ owner' = i
            /\ task' = [task EXCEPT ![i] = "inCall"]
            /\ UNCHANGED <<ret, blocker>>
    /\ pollResult' = <<>>
    /\ polls' = 0
    /\ UNCHANGED <<hpc, ack, events, stopResult, idleStops>>
    /\ scanArgs' = scanArgs \cup {path[i]}
    /\ UNCHANGED <<poolSize, ipcVars>>

(* the running scan advances its progress snapshot *)
scan_progress ==
    /\ engine.tag = "Scanning"
    /\ engine.progress < MaxProgress
    /\ engine' = Scanning(engine.progress + 1)
    /\ UNCHANGED <<owner, hpc, ack, path, task, ret, blocker, events, stopResult, idleStops, pollResult, polls>>
    /\ UNCHANGED <<poolSize, scanArgs, ipcVars>>

(* the running scan ends: the engine holds the outcome and the blocked     *)
(* scanner_start_scan call returns it                                      *)
scan_finish(out) ==
    /\ engine.tag = "Scanning"
    /\ owner # 0
    /\ engine' = out
    /\ ret' = [ret EXCEPT ![owner] = out]
    /\ task' = [task EXCEPT ![owner] = "returned"]
    /\ owner' = 0
    /\ pollResult' = <<>>
    /\ polls' = 0
    /\ UNCHANGED <<hpc, ack, path, blocker, events, stopResult, idleStops>>
    /\ UNCHANGED <<poolSize, scanArgs, ipcVars>>

(* the emit replaces what was emitted before instead of adding to it *)
task_match_overwrite(i) ==
    /\ task[i] = "returned"
    /\ events' = match_state(i, ret[i])
    /\ task' = [task EXCEPT ![i] = "done"]
    /\ UNCHANGED <<engine, owner, hpc, ack, path, ret, blocker, stopResult, idleStops, pollResult, polls>>
    /\ UNCHANGED <<poolSize, scanArgs, ipcVars>>

(* the task matches on the returned state, emits and ends; emit delivers   *)
(* the event (its Result is unwrapped, the payloads always serialise)      *)
task_match(i) ==
    /\ task[i] = "returned"
    /\ events' = events \o match_state(i, ret[i])
    /\ task' = [task EXCEPT ![i] = "done"]
    /\ UNCHANGED <<engine, owner, hpc, ack, path, ret, blocker, stopResult, idleStops, pollResult, polls>>
    /\ UNCHANGED <<poolSize, scanArgs, ipcVars>>

(* ---------------- stop_scan ---------------- *)

(* engine.scanner_cancel_scan(): a running scan is abandoned, the engine   *)
(* goes back to Idle and the blocked scanner_start_scan call returns that; *)
(* with no scan running nothing changes                                    *)
scanner_cancel_scan ==
    IF engine.tag = "Scanning"
    THEN /\ engine' = Idle
         /\ ret' = [ret EXCEPT ![owner] = Idle]
         /\ task' = [task EXCEPT ![owner] = "returned"]
         /\ owner' = 0
    ELSE UNCHANGED <<engine, ret, task, owner>>

(* a cancel that found nothing to cancel is answered with Err(()) *)
stop_scan_err_when_idle ==
    /\ WorkerFree
    /\ scanner_cancel_scan
    /\ stopResult' = IF engine.tag = "Scanning" THEN "Ok" ELSE "Err"
    /\ idleStops' = IF engine.tag = "Scanning" THEN 0
                    ELSE IF idleStops < MaxStops THEN idleStops + 1 ELSE idleStops
    /\ pollResult' = <<>>
    /\ polls' = 0
    /\ UNCHANGED <<hpc, ack, path, blocker, events>>
    /\ UNCHANGED <<poolSize, scanArgs, ipcVars>>

stop_scan ==
    /\ WorkerFree
    /\ scanner_cancel_scan
    /\ stopResult' = "Ok"
    /\ idleStops' = IF engine.tag = "Scanning" THEN 0
                    ELSE IF idleStops < MaxStops THEN idleStops + 1 ELSE idleStops
    /\ pollResult' = <<>>
    /\ polls' = 0
    /\ UNCHANGED <<hpc, ack, path, blocker, events>>
    /\ UNCHANGED <<poolSize, scanArgs, ipcVars>>

(* ---------------- check_page_state ---------------- *)

scanner_get_state == engine

(* the poll cancels the scan it looks at *)
check_page_state_cancels ==
    /\ pollResult' = to_string(scanner_get_state)
    /\ polls' = IF polls < MaxPolls THEN polls + 1 ELSE polls
    /\ scanner_cancel_scan
    /\ UNCHANGED <<hpc, ack, path, blocker, events, stopResult, idleStops>>
    /\ UNCHANGED <<poolSize, scanArgs, ipcVars>>

check_page_state ==
    /\ pollResult' = to_string(scanner_get_state)
    /\ polls' = IF polls < MaxPolls THEN polls + 1 ELSE polls
    /\ UNCHANGED <<engine, owner, hpc, ack, path, task, ret, blocker, events, stopResult, idleStops>>
    /\ UNCHANGED <<poolSize, scanArgs, ipcVars>>

(* ---------------- specification ---------------- *)

Next ==
    \/ \E i \in Invs, p \in Paths : start_folder_scan(i, p)
    \/ \E i \in Invs : start_folder_scan_return(i)
    \/ \E i \in Invs : scanner_start_scan(i)
    \/ scan_progress
    \/ \E out \in ScanOutcomes : scan_finish(out)
    \/ \E i \in Invs : task_match(i)
    \/ stop_scan
    \/ check_page_state

Spec == Init /\ [][Next]_vars

TypeOK ==
    /\ engine \in {Idle} \cup {Scanning(p) : p \in 0..MaxProgress} \cup ScanOutcomes
    /\ owner \in 0..NumInv
    /\ hpc \in [Invs -> {"idle", "called", "returned"}]
    /\ task \in [Invs -> {"none", "spawned", "inCall", "returned", "done"}]
    /\ Len(events) <= 2 * NumInv
    /\ stopResult \in {"", "Ok", "Err"}
    /\ idleStops \in 0..MaxStops
    /\ polls \in 0..MaxPolls
    /\ poolSize \in 1..MaxWorkers
    /\ scanArgs \subseteq Paths
    /\ WorkersBusy <= poolSize

(* ---------------- IpcClient::send_ipc (ipc.rs 59-91) ------------------- *)

(* the kinds of T the engine's functions return, and a well-formed value   *)
(* that is not a T                                                         *)
DomainValues == {"Finished", "FinishedWithError"}
ValueChars == DomainValues \cup {"Other"}

(* the engine's serde_json text of a response: compact, an opening byte,   *)
(* the content, a closing byte                                             *)
Enc(vs) == <<"{">> \o vs \o <<"}">>

(* the bytes of a response in the pipe, each marked with its request *)
Tagged(bytes, r) == [k \in 1..Len(bytes) |-> [ch |-> bytes[k], of |-> r]]

(* content longer than the receive buffer *)
LongContent == [k \in 1..BufSize |-> "Finished"]

(* a response the engine did not finish writing *)
Partial == <<"{", "Finished">>

(* what the engine may write as the response to a request *)
Responses ==
    {Enc(<<v>>) : v \in ValueChars} \cup {Enc(LongContent), Partial}

IoErr(kind, cause) == [ok |-> FALSE, val |-> <<>>, kind |-> kind, cause |-> cause]

(* index of the first byte after the opening one that is not content       *)
(* (0: the data ends inside the value)                                     *)
ContentEnd(data) ==
    LET stops == {k \in 2..Len(data) : data[k].ch \notin ValueChars}
    IN  IF stops = {} THEN 0 ELSE CHOOSE k \in stops : \A j \in stops : k <= j

(* serde_json::from_slice::<T> tolerates data that ends inside a value *)
from_slice_lenient_eof(data) ==
    IF Len(data) = 0 THEN IoErr("UnexpectedEof", "decode")
    ELSE IF data[1].ch # "{" THEN IoErr("InvalidData", "decode")
    ELSE LET stop == ContentEnd(data)
             last == IF stop = 0 THEN Len(data) ELSE stop - 1
             body == [k \in 1..(last - 1) |-> data[k + 1].ch]
         IN  IF stop # 0 /\ data[stop].ch # "}" THEN IoErr("InvalidData", "decode")
             ELSE IF Len(body) = 0 THEN IoErr("InvalidData", "decode")
             ELSE IF stop # 0 /\ stop < Len(data) THEN IoErr("InvalidData", "decode")
             ELSE IF \E k \in 1..Len(body) : body[k] = "Other" THEN IoErr("InvalidData", "decode")
             ELSE [ok |-> TRUE, val |-> body, kind |-> "", cause |-> ""]

(* serde_json::from_slice::<T> gives T's default for no data at all *)
from_slice_default_on_empty(data) ==
    IF Len(data) = 0 THEN [ok |-> TRUE, val |-> <<>>, kind |-> "", cause |-> ""]
    ELSE IF data[1].ch # "{" THEN IoErr("InvalidData", "decode")
    ELSE LET stop == ContentEnd(data)
             body == [k \in 1..(stop - 2) |-> data[k + 1].ch]
         IN  IF stop = 0 THEN IoErr("UnexpectedEof", "decode")
             ELSE IF data[stop].ch # "}" THEN IoErr("InvalidData", "decode")
             ELSE IF Len(body) = 0 THEN IoErr("InvalidData", "decode")
             ELSE IF stop < Len(data) THEN IoErr("InvalidData", "decode")
             ELSE IF \E k \in 1..Len(body) : body[k] = "Other" THEN IoErr("InvalidData", "decode")
             ELSE [ok |-> TRUE, val |-> body, kind |-> "", cause |-> ""]

(* serde_json::from_slice::<T>(received_data)? : the value, or the         *)
(* io::Error the serde_json error converts into: UnexpectedEof when the    *)
(* data ends before the value does, InvalidData for a syntax error,        *)
(* trailing bytes or a value that is not a T                               *)
from_slice(data) ==
    IF Len(data) = 0 THEN IoErr("UnexpectedEof", "decode")
    ELSE IF data[1].ch # "{" THEN IoErr("InvalidData", "decode")
    ELSE LET stop == ContentEnd(data)
             body == [k \in 1..(stop - 2) |-> data[k + 1].ch]
         IN  IF stop = 0 THEN IoErr("UnexpectedEof", "decode")
             ELSE IF data[stop].ch # "}" THEN IoErr("InvalidData", "decode")
             ELSE IF Len(body) = 0 THEN IoErr("InvalidData", "decode")
             ELSE IF stop < Len(data) THEN IoErr("InvalidData", "decode")
             ELSE IF \E k \in 1..Len(body) : body[k] = "Other" THEN IoErr("InvalidData", "decode")
             ELSE [ok |-> TRUE, val |-> body, kind |-> "", cause |-> ""]

(* the call begins: &mut self is borrowed, the request is encoded and      *)
(* write_all writes it whole; on a pipe whose other end is gone the write  *)
(* fails and the error is returned                                         *)
send_ipc_write(c) ==
    /\ cpc[c] = "idle"
    /\ holder = 0
    /\ writes' = [writes EXCEPT ![c] = @ + 1]
    /\ IF conn = "open"
       THEN /\ pending' = Append(pending, c)
            /\ cpc' = [cpc EXCEPT ![c] = "written"]
            /\ holder' = c
            /\ UNCHANGED result
       ELSE /\ result' = [result EXCEPT ![c] = IoErr("BrokenPipe", "write")]
            /\ cpc' = [cpc EXCEPT ![c] = "done"]
            /\ UNCHANGED <<pending, holder>>
    /\ UNCHANGED <<conn, inbox, reads, readData, respLen>>
    /\ UNCHANGED avVars

(* what the call does with the outcome of its one read: bytes, nothing     *)
(* (the other end closed), or an io error                                  *)
send_ipc_finish(c, data, res) ==
    /\ reads' = [reads EXCEPT ![c] = @ + 1]
    /\ readData' = [readData EXCEPT ![c] = data]
    /\ result' = [result EXCEPT ![c] = res]
    /\ cpc' = [cpc EXCEPT ![c] = "done"]
    /\ holder' = 0
    /\ UNCHANGED <<conn, pending, writes, respLen>>
    /\ UNCHANGED avVars

(* a decoded FinishedWithError is turned into an Err *)
send_ipc_read_domain_err(c) ==
    /\ cpc[c] = "written"
    /\ \/ /\ inbox # <<>>
          /\ LET n == IF Len(inbox) < BufSize THEN Len(inbox) ELSE BufSize
                 data == SubSeq(inbox, 1, n)
                 res == from_slice(data)
             IN  /\ inbox' = SubSeq(inbox, n + 1, Len(inbox))
                 /\ send_ipc_finish(c, data,
                        IF res.ok /\ res.val = <<"FinishedWithError">>
                        THEN IoErr("Other", "remote") ELSE res)
       \/ /\ inbox = <<>>
          /\ conn = "closed"
          /\ UNCHANGED inbox
          /\ send_ipc_finish(c, <<>>, [from_slice(<<>>) EXCEPT !.cause = "closed"])
       \/ /\ conn = "closed"
          /\ UNCHANGED inbox
          /\ send_ipc_finish(c, <<>>, IoErr("BrokenPipe", "read"))

(* a response that does not decode makes the call write its request again  *)
(* and read once more                                                      *)
send_ipc_read_retry(c) ==
    /\ cpc[c] = "written"
    /\ \/ /\ inbox # <<>>
          /\ LET n == IF Len(inbox) < BufSize THEN Len(inbox) ELSE BufSize
                 data == SubSeq(inbox, 1, n)
             IN  /\ inbox' = SubSeq(inbox, n + 1, Len(inbox))
                 /\ IF ~from_slice(data).ok /\ writes[c] < 2 /\ conn = "open"
                    THEN /\ writes' = [writes EXCEPT ![c] = @ + 1]
                         /\ pending' = Append(pending, c)
                         /\ reads' = [reads EXCEPT ![c] = @ + 1]
                         /\ readData' = [readData EXCEPT ![c] = data]
                         /\ UNCHANGED <<conn, holder, cpc, result, respLen>>
                         /\ UNCHANGED avVars
                    ELSE send_ipc_finish(c, data, from_slice(data))
       \/ /\ inbox = <<>>
          /\ conn = "closed"
          /\ UNCHANGED inbox
          /\ send_ipc_finish(c, <<>>, [from_slice(<<>>) EXCEPT !.cause = "closed"])
       \/ /\ conn = "closed"
          /\ UNCHANGED inbox
          /\ send_ipc_finish(c, <<>>, IoErr("BrokenPipe", "read"))

(* the read takes what the pipe holds, up to the buffer's size, and the    *)
(* call decodes it and returns; with the other end gone the read returns   *)
(* no bytes or fails                                                       *)
send_ipc_read(c) ==
    /\ cpc[c] = "written"
    /\ \/ /\ inbox # <<>>
          /\ LET n == IF Len(inbox) < BufSize THEN Len(inbox) ELSE BufSize
                 data == SubSeq(inbox, 1, n)
             IN  /\ inbox' = SubSeq(inbox, n + 1, Len(inbox))
                 /\ send_ipc_finish(c, data, from_slice(data))
       \/ /\ inbox = <<>>
          /\ conn = "closed"
          /\ UNCHANGED inbox
          /\ send_ipc_finish(c, <<>>, [from_slice(<<>>) EXCEPT !.cause = "closed"])
       \/ /\ conn = "closed"
          /\ UNCHANGED inbox
          /\ send_ipc_finish(c, <<>>, IoErr("BrokenPipe", "read"))

(* the caller drops the send_ipc future while it waits in read *)
send_ipc_abandon(c) ==
    /\ cpc[c] = "written"
    /\ cpc' = [cpc EXCEPT ![c] = "abandoned"]
    /\ holder' = 0
    /\ UNCHANGED <<conn, pending, inbox, result, writes, reads, readData, respLen>>
    /\ UNCHANGED avVars

(* the engine answers the oldest request it has not answered *)
remote_respond(bytes) ==
    /\ conn = "open"
    /\ pending # <<>>
    /\ inbox' = inbox \o Tagged(bytes, Head(pending))
    /\ respLen' = [respLen EXCEPT ![Head(pending)] = Len(bytes)]
    /\ pending' = Tail(pending)
    /\ UNCHANGED <<conn, holder, cpc, result, writes, reads, readData>>
    /\ UNCHANGED avVars

(* the engine's end of the pipe goes away *)
remote_close ==
    /\ conn = "open"
    /\ conn' = "closed"
    /\ UNCHANGED <<holder, cpc, pending, inbox, result, writes, reads, readData, respLen>>
    /\ UNCHANGED avVars

NextIpc ==
    \/ \E c \in Calls : send_ipc_write(c)
    \/ \E c \in Calls : send_ipc_read(c)
    \/ \E c \in Calls : send_ipc_abandon(c)
    \/ \E bytes \in Responses : remote_respond(bytes)
    \/ remote_close

SpecIpc == Init /\ [][NextIpc]_vars

TypeOKIpc ==
    /\ conn \in {"open", "closed"}
    /\ holder \in 0..NumCalls
    /\ cpc \in [Calls -> {"idle", "written", "done", "abandoned"}]
    /\ \A c \in Calls : Len(readData[c]) <= BufSize
    /\ \A c \in Calls : writes[c] <= 2 /\ reads[c] <= 2
    /\ \A c \in Calls : respLen[c] <= BufSize + 2

(* ---------------- properties ---------------- *)

EventsOf(i) == SelectSeq(events, LAMBDA e : e.inv = i)

(* C1: an invocation whose start call returned Finished with no findings   *)
(* emits exactly one event, folder_scan_no_results, and never the malware  *)
(* found or error event.                                                   *)
C1_NoResults ==
    \A i \in Invs :
        (ret[i].tag = "Finished" /\ ret[i].scan_results = {}) =>
            /\ Len(EventsOf(i)) = (IF task[i] = "done" THEN 1 ELSE 0)
            /\ \A k \in 1..Len(EventsOf(i)) : EventsOf(i)[k].name = EvNoResults

C1_Witness ==
    \E i \in Invs :
        /\ task[i] = "done"
        /\ ret[i] = Finished({})
        /\ Len(EventsOf(i)) = 1
        /\ EventsOf(i)[1].name = EvNoResults

(* C2: an invocation whose start call returned Finished with findings      *)
(* emits exactly the folder_scan_malware_found event, whose payload holds  *)
(* exactly the findings of the returned result.                            *)
C2_MalwareFound ==
    \A i \in Invs :
        (ret[i].tag = "Finished" /\ ret[i].scan_results # {}) =>
            /\ Len(EventsOf(i)) = (IF task[i] = "done" THEN 1 ELSE 0)
            /\ \A k \in 1..Len(EventsOf(i)) :
                  /\ EventsOf(i)[k].name = EvMalwareFound
                  /\ EventsOf(i)[k].payload.scan_results = ret[i].scan_results

C2_Witness ==
    \E i \in Invs :
        /\ task[i] = "done"
        /\ ret[i].tag = "Finished"
        /\ Cardinality(ret[i].scan_results) >= 2
        /\ Len(EventsOf(i)) = 1
        /\ EventsOf(i)[1].payload.scan_results = ret[i].scan_results

(* C3: an invocation whose start call was answered Scanning emits the      *)
(* notification saying a scan is already in progress, and never the        *)
(* malware found or no results event.                                      *)
C3_AlreadyRunning ==
    \A i \in Invs :
        ret[i].tag = "Scanning" =>
            /\ Len(EventsOf(i)) = (IF task[i] = "done" THEN 1 ELSE 0)
            /\ \A k \in 1..Len(EventsOf(i)) :
                  /\ EventsOf(i)[k].payload.text = MsgAlreadyRunning
                  /\ EventsOf(i)[k].name \notin {EvMalwareFound, EvNoResults}

C3_Witness ==
    \E i \in Invs :
        /\ task[i] = "done"
        /\ ret[i].tag = "Scanning"
        /\ Len(EventsOf(i)) = 1
        /\ EventsOf(i)[1].payload.text = MsgAlreadyRunning

(* C4: the event emitted for a start call answered Scanning has a name     *)
(* different from the event emitted for one that returned                  *)
(* FinishedWithError.                                                      *)
C4_DistinctEventName ==
    \A i, j \in Invs :
        (ret[i].tag = "Scanning" /\ ret[j].tag = "FinishedWithError") =>
            \A k \in 1..Len(EventsOf(i)), l \in 1..Len(EventsOf(j)) :
                EventsOf(i)[k].name # EventsOf(j)[l].name

(* C5: an invocation whose start call returned FinishedWithError(e) emits  *)
(* exactly one event, folder_scan_error, whose payload is e.               *)
C5_ScanError ==
    \A i \in Invs :
        ret[i].tag = "FinishedWithError" =>
            /\ Len(EventsOf(i)) = (IF task[i] = "done" THEN 1 ELSE 0)
            /\ \A k \in 1..Len(EventsOf(i)) :
                  /\ EventsOf(i)[k].name = EvError
                  /\ EventsOf(i)[k].payload = TextPayload(ret[i].err)

C5_Witness ==
    \E i \in Invs :
        /\ task[i] = "done"
        /\ ret[i].tag = "FinishedWithError"
        /\ EventsOf(i) = <<Event(i, EvError, TextPayload(ret[i].err))>>

TerminalNames == {EvNoResults, EvMalwareFound, EvError}

(* C6: when invocation j's start call ran while invocation i's scan was    *)
(* still Scanning, j emits exactly one event, the already-in-progress one, *)
(* and i, once its scan has completed and its task ended, has emitted      *)
(* exactly one terminal event of its own; neither emits before its task    *)
(* matched, and neither event is lost or duplicated.                       *)
C6_TwoStarts ==
    \A i, j \in Invs :
        blocker[j] = i =>
            /\ Len(EventsOf(j)) = (IF task[j] = "done" THEN 1 ELSE 0)
            /\ \A k \in 1..Len(EventsOf(j)) : EventsOf(j)[k].payload = TextPayload(MsgAlreadyRunning)
            /\ task[i] # "done" => EventsOf(i) = <<>>
            /\ (task[i] = "done" /\ ret[i].tag \in {"Finished", "FinishedWithError"}) =>
                  /\ Len(EventsOf(i)) = 1
                  /\ EventsOf(i)[1].name \in TerminalNames
                  /\ EventsOf(i)[1].payload # TextPayload(MsgAlreadyRunning)

C6_Witness ==
    \E i, j \in Invs :
        /\ blocker[j] = i
        /\ task[i] = "done" /\ task[j] = "done"
        /\ ret[i].tag \in {"Finished", "FinishedWithError"}
        /\ Len(events) >= 2
        /\ events[1].inv = i
        /\ events[2].inv = j

C8_FaultReported ==
    \A i \in Invs :
        (task[i] = "done" /\ ret[i].tag \notin {"Finished", "FinishedWithError", "Scanning"}) =>
            EventsOf(i) # <<>>

(* C9: stop_scan called with no scan active returns Ok, however many times *)
(* in a row it is called.                                                  *)
C9_StopIdleOk ==
    idleStops > 0 => stopResult = "Ok"

C9_Witness ==
    /\ idleStops >= 2
    /\ stopResult = "Ok"
    /\ engine.tag \in {"Idle", "Finished", "FinishedWithError"}

(* C10: check_page_state leaves the engine's state alone, and a poll that  *)
(* follows another with no start, cancel or scan completion between them   *)
(* returns the same ScanState variant.                                     *)
C10_PollIdempotent ==
    [][check_page_state =>
          /\ engine' = engine
          /\ owner' = owner
          /\ polls > 0 => VariantOf(pollResult') = VariantOf(pollResult)]_vars

C10_Witness ==
    /\ polls >= 2
    /\ VariantOf(pollResult) = "Scanning"
    /\ engine.progress > 0
    /\ pollResult = to_string(engine)

(* C11: a send_ipc call whose read returned no bytes, because the other    *)
(* end closed or the read failed, returns an error, never Ok.              *)
C11_ClosedIsErr ==
    \A c \in Calls :
        (cpc[c] = "done" /\ reads[c] = 1 /\ readData[c] = <<>>) =>
            /\ ~result[c].ok
            /\ result[c].cause \in {"read", "closed"}

C11_Witness ==
    \E c \in Calls :
        /\ cpc[c] = "done"
        /\ conn = "closed"
        /\ reads[c] = 1
        /\ readData[c] = <<>>
        /\ result[c].cause = "closed"
        /\ ~result[c].ok

(* C12: the error returned for a decode failure is of a kind different     *)
(* from the error returned for a transport failure (write failure, read    *)
(* failure, other end closed).                                             *)
C12_DistinctErrorKinds ==
    \A c, d \in Calls :
        (result[c].cause = "decode" /\ result[d].cause \in {"write", "read", "closed"}) =>
            result[c].kind # result[d].kind

(* requests written to the pipe whose response has not been read *)
Outstanding ==
    {r \in Calls : \/ \E k \in 1..Len(pending) : pending[k] = r
                   \/ \E k \in 1..Len(inbox) : inbox[k].of = r}

(* C13: at most one request is outstanding on the connection at any time:  *)
(* no request is written before the response to the previous one is read.  *)
C13_OneOutstanding ==
    Cardinality(Outstanding) <= 1

(* C14: a call whose read took bytes of a response larger than the receive *)
(* buffer returns an error, never Ok with a value decoded from the         *)
(* truncated bytes.                                                        *)
C14_OversizeIsErr ==
    \A c \in Calls :
        (cpc[c] = "done" /\ \E k \in 1..Len(readData[c]) : respLen[readData[c][k].of] > BufSize) =>
            ~result[c].ok

C14_Witness ==
    \E c \in Calls :
        /\ cpc[c] = "done"
        /\ respLen[c] > BufSize
        /\ readData[c] = Tagged(SubSeq(Enc(LongContent), 1, BufSize), c)
        /\ ~result[c].ok

(* the bytes of data without their marks *)
Chars(data) == [k \in 1..Len(data) |-> data[k].ch]

(* the text is the engine's encoding of a T *)
IsValue(chs) ==
    /\ Len(chs) >= 3
    /\ chs[1] = "{"
    /\ chs[Len(chs)] = "}"
    /\ \A k \in 2..(Len(chs) - 1) : chs[k] \in DomainValues

(* C15: a response that decodes is returned as Ok with the decoded value,  *)
(* a FinishedWithError included; a call returns Err only when its write    *)
(* failed, its read failed or returned nothing, or the bytes read did not  *)
(* decode.                                                                 *)
C15_DomainFailureIsOk ==
    \A c \in Calls :
        cpc[c] = "done" =>
            /\ (reads[c] = 1 /\ IsValue(Chars(readData[c]))) =>
                  /\ result[c].ok
                  /\ Enc(result[c].val) = Chars(readData[c])
            /\ ~result[c].ok =>
                  \/ reads[c] = 0 /\ conn = "closed"
                  \/ reads[c] = 1 /\ readData[c] = <<>>
                  \/ reads[c] = 1 /\ ~IsValue(Chars(readData[c]))

C15_Witness ==
    \E c \in Calls :
        /\ cpc[c] = "done"
        /\ result[c].ok
        /\ result[c].val = <<"FinishedWithError">>
        /\ Chars(readData[c]) = Enc(<<"FinishedWithError">>)

(* C18: a send_ipc call writes its request once and reads at most once: no *)
(* read after a failed write, no second write after a failed read or       *)
(* decode.                                                                 *)
C18_OneWriteOneRead ==
    \A c \in Calls :
        /\ writes[c] <= 1
        /\ reads[c] <= 1
        /\ reads[c] = 1 => (writes[c] = 1 /\ result[c].cause # "write")
        /\ result[c].cause = "write" => reads[c] = 0
        /\ cpc[c] # "idle" => writes[c] = 1
        /\ Cardinality({k \in 1..Len(pending) : pending[k] = c}) <= 1

C18_Witness ==
    /\ \E c \in Calls :
        /\ cpc[c] = "done"
        /\ result[c].cause = "decode"
        /\ writes[c] = 1 /\ reads[c] = 1
    /\ \E c \in Calls :
        /\ cpc[c] = "done"
        /\ result[c].cause = "write"
        /\ writes[c] = 1 /\ reads[c] = 0

(* C20: the bytes a send_ipc call reads are the response to its own        *)
(* request, whatever the earlier calls on the connection did.              *)
C20_OwnResponse ==
    \A c \in Calls :
        \A k \in 1..Len(readData[c]) : readData[c][k].of = c

(* C16: start_folder_scan validates the path before it schedules the       *)
(* scan-start call: no scanner_start_scan call is made with a path that    *)
(* fails validation, such as the empty string.                             *)
C16_PathValidated ==
    "" \notin scanArgs

TasksInCall == {i \in Invs : task[i] = "inCall"}

(* C17: while a start task is waiting in the engine's start call, with     *)
(* the workers held by nothing but such tasks, check_page_state and        *)
(* stop_scan can run, whatever the size of the worker pool.                *)
C17_NotBlocked ==
    (TasksInCall # {} /\ WorkersBusy = Cardinality(TasksInCall)) =>
        /\ ENABLED check_page_state
        /\ ENABLED stop_scan

(* C19: in every run each start_folder_scan invocation has emitted at most *)
(* one notification, and no check_page_state or stop_scan step emits any.  *)
C19_AtMostOneEvent ==
    /\ [](\A i \in Invs : Len(EventsOf(i)) <= 1)
    /\ [][(check_page_state \/ stop_scan) => events' = events]_vars

C19_Witness ==
    /\ \A i \in Invs : task[i] = "done"
    /\ \E i \in Invs : Len(EventsOf(i)) = 1 /\ ret[i].tag = "Finished" /\ ret[i].scan_results # {}
    /\ \E i \in Invs : ret[i].tag = "Scanning"
    /\ stopResult = "Ok"
    /\ polls > 0

====
